---- MODULE Spec2Model ----
(***************************************************************************)
(* Grade merge engine of the Brightspace-Cisco grade updater (src/app.py): *)
(* column mapping (find_brightspace_column, create_dynamic_column_mapping)  *)
(* and the email join and grade write-back of update_brightspace_grades.    *)
(* load_cisco_csv, extract_available_assignments and                       *)
(* get_assignment_data_preview are modelled for the assignment preview.     *)
(*                                                                         *)
(* Text is a sequence of one-character strings, so that substring search,  *)
(* lower-casing, trimming and splitting are computed, not assumed.  The     *)
(* character "endash" stands for U+2013.  A cell is a tagged value: NaN,    *)
(* text, or a number counted in tenths (85.5 is 855).                       *)
(***************************************************************************)
EXTENDS Integers, Sequences, FiniteSets, TLC

(* ------------------------------ bounds -------------------------------- *)

\* Largest number of student rows in a provider table.
MaxCiscoRows == 2

\* How many merges are run one after the other on the same tables.
MaxCalls == 2

(* --------------------------- Python strings --------------------------- *)

UpperCase == <<"A","B","C","D","E","F","G","H","I","J","K","L","M",
               "N","O","P","Q","R","S","T","U","V","W","X","Y","Z">>

LowerCase == <<"a","b","c","d","e","f","g","h","i","j","k","l","m",
               "n","o","p","q","r","s","t","u","v","w","x","y","z">>

\* str.lower() on one character.
LowerChar(c) ==
  IF \E i \in 1..26 : UpperCase[i] = c
  THEN LowerCase[CHOOSE i \in 1..26 : UpperCase[i] = c]
  ELSE c

\* str.lower()
Lower(s) == [i \in 1..Len(s) |-> LowerChar(s[i])]

\* The characters str.strip() and str.split() treat as whitespace.
IsSpace(c) == c \in {" ", "\t", "\n", "\r"}

\* str.strip()
Strip(s) ==
  LET keep == {i \in 1..Len(s) : ~IsSpace(s[i])}
  IN  IF keep = {} THEN <<>>
      ELSE LET lo == CHOOSE i \in keep : \A k \in keep : i <= k
               hi == CHOOSE i \in keep : \A k \in keep : k <= i
           IN  SubSeq(s, lo, hi)

RECURSIVE SplitFrom(_, _, _)
\* str.split() continued from position i with the token cur being read.
SplitFrom(s, i, cur) ==
  IF i > Len(s) THEN (IF cur = <<>> THEN <<>> ELSE <<cur>>)
  ELSE IF IsSpace(s[i])
       THEN (IF cur = <<>> THEN <<>> ELSE <<cur>>) \o SplitFrom(s, i + 1, <<>>)
       ELSE SplitFrom(s, i + 1, Append(cur, s[i]))

\* str.split(): the whitespace-delimited tokens, none of them empty.
Split(s) == SplitFrom(s, 1, <<>>)

\* Python's `sub in s` on strings; the empty string is in every string.
Contains(sub, s) ==
  \E i \in 1..(Len(s) - Len(sub) + 1) : SubSeq(s, i, i + Len(sub) - 1) = sub

(* ------------------------------- cells -------------------------------- *)

NaN == [t |-> "nan", s |-> <<>>, n |-> 0]

Str(s) == [t |-> "str", s |-> s, n |-> 0]

Num(n) == [t |-> "num", s |-> <<>>, n |-> n]

\* pd.isna on a scalar.
IsNa(v) == v.t = "nan"

Digits == <<"0","1","2","3","4","5","6","7","8","9">>

IsDigit(c) == \E d \in 1..10 : Digits[d] = c

DigitValue(c) == (CHOOSE d \in 1..10 : Digits[d] = c) - 1

RECURSIVE NatText(_)
\* The decimal digits of a natural number.
NatText(n) ==
  IF n < 10 THEN <<Digits[n + 1]>> ELSE Append(NatText(n \div 10), Digits[(n % 10) + 1])

\* str(v) / astype(str) of one cell: NaN prints as nan, a float with its
\* fractional digit.
PyStr(v) ==
  CASE v.t = "nan" -> <<"n","a","n">>
    [] v.t = "str" -> v.s
    [] v.t = "num" -> NatText(v.n \div 10) \o <<".">> \o NatText(v.n % 10)

RECURSIVE NatValue(_)
NatValue(ds) ==
  IF ds = <<>> THEN 0
  ELSE 10 * NatValue(SubSeq(ds, 1, Len(ds) - 1)) + DigitValue(ds[Len(ds)])

\* The texts float() accepts, within the grades modelled: digits, with at
\* most one fractional digit, surrounding whitespace ignored.
IsFloatText(s) ==
  LET b == Strip(s)
      dots == {i \in 1..Len(b) : b[i] = "."}
  IN  /\ b # <<>>
      /\ \A i \in 1..Len(b) : IsDigit(b[i]) \/ b[i] = "."
      /\ \/ dots = {}
         \/ /\ Cardinality(dots) = 1
            /\ Len(b) >= 2
            /\ \E i \in dots : Len(b) - i <= 1

\* float(s) in tenths, for a text IsFloatText accepts.
FloatOfText(s) ==
  LET b == Strip(s)
      dots == {i \in 1..Len(b) : b[i] = "."}
  IN  IF dots = {} THEN 10 * NatValue(b)
      ELSE LET i == CHOOSE k \in dots : TRUE
           IN  10 * NatValue(SubSeq(b, 1, i - 1)) + NatValue(SubSeq(b, i + 1, Len(b)))

\* Lines 502-505: float(cisco_grade), and on ValueError the trimmed text.
GradeValue(cisco_grade) ==
  IF cisco_grade.t = "num" THEN cisco_grade
  ELSE IF IsFloatText(PyStr(cisco_grade)) THEN Num(FloatOfText(PyStr(cisco_grade)))
  ELSE Str(Strip(PyStr(cisco_grade)))

\* Lines 496-498: the blank test of a provider cell.
IsBlank(cisco_grade) ==
  \/ IsNa(cisco_grade)
  \/ Strip(PyStr(cisco_grade)) = <<>>
  \/ Strip(PyStr(cisco_grade)) = <<" ">>

\* .astype(str).str.strip().str.lower() of an email cell (lines 453-454).
NormalizeEmail(v) == Lower(Strip(PyStr(v)))

(* ---------------------------- column names ---------------------------- *)

Email == <<"E","m","a","i","l">>

LastName == <<"L","a","s","t"," ","N","a","m","e">>

FirstName == <<"F","i","r","s","t"," ","N","a","m","e">>

Email_normalized == <<"E","m","a","i","l","_","n","o","r","m","a","l","i","z","e","d">>

NAME == <<"N","A","M","E">>

EMAIL == <<"E","M","A","I","L">>

EMAIL_normalized == <<"E","M","A","I","L","_","n","o","r","m","a","l","i","z","e","d">>

(* ----------------------------- data frames ---------------------------- *)

\* A table: its column labels in order, and its rows, each a sequence of
\* cells in column order.  Rows are addressed by position.

\* `name in df.columns`
HasColumn(df, name) == \E c \in 1..Len(df.columns) : df.columns[c] = name

\* Position of the column labelled name.
ColumnIndex(df, name) ==
  CHOOSE c \in 1..Len(df.columns) :
    /\ df.columns[c] = name
    /\ \A k \in 1..(c - 1) : df.columns[k] # name

\* df.at[r, name], df[name] of row r.
Cell(df, r, name) == df.rows[r][ColumnIndex(df, name)]

\* df.at[r, name] = v
SetCell(df, r, name, v) ==
  [df EXCEPT !.rows[r][ColumnIndex(df, name)] = v]

\* df[name] = values: replaces the column when it exists, else appends it.
WithColumn(df, name, values) ==
  IF HasColumn(df, name)
  THEN [df EXCEPT !.rows =
          [r \in 1..Len(df.rows) |->
             [df.rows[r] EXCEPT ![ColumnIndex(df, name)] = values[r]]]]
  ELSE [columns |-> Append(df.columns, name),
        rows |-> [r \in 1..Len(df.rows) |-> Append(df.rows[r], values[r])]]

\* The sequence s without its element at position c.
RemoveAt(s, c) == SubSeq(s, 1, c - 1) \o SubSeq(s, c + 1, Len(s))

\* df.drop(name, axis=1)
DropColumn(df, name) ==
  LET c == ColumnIndex(df, name)
  IN  [columns |-> RemoveAt(df.columns, c),
       rows |-> [r \in 1..Len(df.rows) |-> RemoveAt(df.rows[r], c)]]

\* df[name].astype(str).str.strip().str.lower()
NormalizedColumn(df, name) ==
  [r \in 1..Len(df.rows) |-> Str(NormalizeEmail(Cell(df, r, name)))]

(* --------------------------- column mapper ---------------------------- *)

static_key_1 ==
  <<"C","h","e","c","k","p","o","i","n","t"," ","E","x","a","m",":"," ","B","u","i","l","d"," ","a"," ","S","m","a","l","l"," ","N","e","t","w","o","r","k">>

static_fragment_1 ==
  <<"C","h","e","c","k","p","o","i","n","t"," ","E","x","a","m"," ","-"," ","B","u","i","l","d"," ","a"," ","S","m","a","l","l"," ","N","e","t","w","o","r","k"," ","P","o","i","n","t","s"," ","G","r","a","d","e">>

static_key_2 ==
  <<"C","h","e","c","k","p","o","i","n","t"," ","E","x","a","m",":"," ","N","e","t","w","o","r","k"," ","A","c","c","e","s","s">>

static_fragment_2 ==
  <<"C","h","e","c","k","p","o","i","n","t"," ","E","x","a","m"," ","-"," ","N","e","t","w","o","r","k"," ","A","c","c","e","s","s"," ","P","o","i","n","t","s"," ","G","r","a","d","e">>

static_key_3 ==
  <<"C","h","e","c","k","p","o","i","n","t"," ","E","x","a","m",":"," ","T","h","e"," ","I","n","t","e","r","n","e","t"," ","P","r","o","t","o","c","o","l">>

static_fragment_3 ==
  <<"C","h","e","c","k","p","o","i","n","t"," ","E","x","a","m"," ","-"," ","I","n","t","e","r","n","e","t"," ","P","r","o","t","o","c","o","l"," ","P","o","i","n","t","s"," ","G","r","a","d","e">>

static_key_4 ==
  <<"C","h","e","c","k","p","o","i","n","t"," ","E","x","a","m",":"," ","C","o","m","m","u","n","i","c","a","t","i","o","n"," ","B","e","t","w","e","e","n"," ","N","e","t","w","o","r","k","s">>

static_fragment_4 ==
  <<"C","h","e","c","k","p","o","i","n","t"," ","E","x","a","m",":"," ","C","o","m","m","u","n","i","c","a","t","i","o","n"," ","B","e","t","w","e","e","n"," ","N","e","t","w","o","r","k","s"," ","P","o","i","n","t","s"," ","G","r","a","d","e">>

static_key_5 ==
  <<"C","h","e","c","k","p","o","i","n","t"," ","E","x","a","m",":"," ","P","r","o","t","o","c","o","l","s"," ","f","o","r"," ","S","p","e","c","i","f","i","c"," ","T","a","s","k","s">>

static_fragment_5 ==
  <<"C","h","e","c","k","p","o","i","n","t"," ","E","x","a","m"," ","endash"," ","P","r","o","t","o","c","o","l","s"," ","f","o","r"," ","S","p","e","c","i","f","i","c"," ","T","a","s","k","s","(","1",")"," ","P","o","i","n","t","s"," ","G","r","a","d","e">>

static_key_6 ==
  <<"C","h","e","c","k","p","o","i","n","t"," ","E","x","a","m",":"," ","C","h","a","r","a","c","t","e","r","i","s","t","i","c","s"," ","o","f"," ","N","e","t","w","o","r","k"," ","D","e","s","i","g","n">>

static_fragment_6 ==
  <<"C","h","e","c","k","p","o","i","n","t"," ","E","x","a","m"," ","endash"," ","C","h","a","r","a","c","t","e","r","i","s","t","i","c","s"," ","o","f"," ","N","e","t","w","o","r","k"," ","D","e","s","i","g","n"," ","P","o","i","n","t","s"," ","G","r","a","d","e">>

static_key_7 ==
  <<"C","h","e","c","k","p","o","i","n","t"," ","E","x","a","m",":"," ","N","e","t","w","o","r","k"," ","A","d","d","r","e","s","s","i","n","g">>

static_fragment_7 ==
  <<"C","h","e","c","k","p","o","i","n","t"," ","E","x","a","m"," ","endash"," ","N","e","t","w","o","r","k"," ","A","d","d","r","e","s","s","i","n","g"," ","P","o","i","n","t","s"," ","G","r","a","d","e">>

static_key_8 ==
  <<"C","h","e","c","k","p","o","i","n","t"," ","E","x","a","m",":"," ","A","R","P",","," ","D","N","S",","," ","D","H","C","P"," ","a","n","d"," ","t","h","e"," ","T","r","a","n","s","p","o","r","t"," ","L","a","y","e","r">>

static_fragment_8 ==
  <<"C","h","e","c","k","p","o","i","n","t"," ","E","x","a","m"," ","endash"," ","A","R","P"," ","D","N","S"," ","D","H","C","P"," ","a","n","d"," ","t","h","e"," ","T","r","a","n","s","p","o","r","t"," ","L","a","y","e","r"," ","P","o","i","n","t","s"," ","G","r","a","d","e">>

static_key_9 ==
  <<"C","h","e","c","k","p","o","i","n","t"," ","E","x","a","m",":"," ","C","o","n","f","i","g","u","r","e"," ","C","i","s","c","o"," ","D","e","v","i","c","e","s">>

static_fragment_9 ==
  <<"C","h","e","c","k","p","o","i","n","t"," ","E","x","a","m"," ","endash"," ","C","o","n","f","i","g","u","r","e"," ","C","i","s","c","o"," ","D","e","v","i","c","e","s"," ","P","o","i","n","t","s"," ","G","r","a","d","e">>

static_key_10 ==
  <<"C","h","e","c","k","p","o","i","n","t"," ","E","x","a","m",":"," ","P","h","y","s","i","c","a","l",","," ","D","a","t","a"," ","L","i","n","k",","," ","a","n","d"," ","N","e","t","w","o","r","k"," ","L","a","y","e","r","s">>

static_fragment_10 ==
  <<"C","h","e","c","k","p","o","i","n","t"," ","E","x","a","m"," ","endash"," ","P","h","y","s","i","c","a","l"," ","D","a","t","a"," ","L","i","n","k"," ","a","n","d"," ","N","e","t","w","o","r","k"," ","L","a","y","e","r","s"," ","P","o","i","n","t","s"," ","G","r","a","d","e">>

static_key_11 ==
  <<"C","h","e","c","k","p","o","i","n","t"," ","E","x","a","m",":"," ","I","P"," ","A","d","d","r","e","s","s","i","n","g">>

static_fragment_11 ==
  <<"C","h","e","c","k","p","o","i","n","t"," ","E","x","a","m"," ","endash"," ","I","P"," ","A","d","d","r","e","s","s","i","n","g"," ","P","o","i","n","t","s"," ","G","r","a","d","e">>

static_key_12 ==
  <<"C","h","e","c","k","p","o","i","n","t"," ","E","x","a","m",":"," ","C","i","s","c","o"," ","D","e","v","i","c","e","s"," ","a","n","d"," ","T","r","o","u","b","l","e","s","h","o","o","t","i","n","g"," ","N","e","t","w","o","r","k"," ","I","s","s","u","e","s">>

static_fragment_12 ==
  <<"C","h","e","c","k","p","o","i","n","t"," ","E","x","a","m"," ","endash"," ","C","i","s","c","o"," ","D","e","v","i","c","e","s"," ","P","o","i","n","t","s"," ","G","r","a","d","e">>

static_mapping ==
  (static_key_1 :> static_fragment_1)
  @@ (static_key_2 :> static_fragment_2)
  @@ (static_key_3 :> static_fragment_3)
  @@ (static_key_4 :> static_fragment_4)
  @@ (static_key_5 :> static_fragment_5)
  @@ (static_key_6 :> static_fragment_6)
  @@ (static_key_7 :> static_fragment_7)
  @@ (static_key_8 :> static_fragment_8)
  @@ (static_key_9 :> static_fragment_9)
  @@ (static_key_10 :> static_fragment_10)
  @@ (static_key_11 :> static_fragment_11)
  @@ (static_key_12 :> static_fragment_12)

\* The value find_brightspace_column returns when nothing matches.
None == <<"None">>

\* Smallest position of `columns` that satisfies the test, 0 when none does.
FirstPosition(columns, Test(_)) ==
  IF \E c \in 1..Len(columns) : Test(columns[c])
  THEN CHOOSE c \in 1..Len(columns) :
         Test(columns[c]) /\ \A k \in 1..(c - 1) : ~Test(columns[k])
  ELSE 0

\* Lines 398-402: the first column whose lower-cased name contains any
\* lower-cased whitespace-delimited token of the search term.
KeyTermMatch(brightspace_columns, search_term) ==
  LET key_terms == Split(Lower(search_term))
      Hit(col) == \E t \in 1..Len(key_terms) : Contains(key_terms[t], Lower(col))
      c == FirstPosition(brightspace_columns, Hit)
  IN  IF c = 0 THEN None ELSE brightspace_columns[c]

\* find_brightspace_column without its first loop: the key terms decide.
find_brightspace_column_terms_only(brightspace_columns, search_term) ==
  KeyTermMatch(brightspace_columns, search_term)

\* Lines 390-404.
find_brightspace_column(brightspace_columns, search_term) ==
  LET Exact(col) == Contains(search_term, col)
      c == FirstPosition(brightspace_columns, Exact)
  IN  IF c # 0 THEN brightspace_columns[c]
      ELSE KeyTermMatch(brightspace_columns, search_term)

\* Lines 428-435: the term searched for one selected assignment.
SearchTerm(cisco_col) ==
  IF cisco_col \in DOMAIN static_mapping THEN static_mapping[cisco_col] ELSE cisco_col

RECURSIVE create_dynamic_column_mapping(_, _)
\* Lines 406-439.  selected_assignments is the selected set in the order
\* the loop of line 427 enumerates it; the result is the dict in insertion
\* order, a sequence of <<cisco_col, brightspace_col>>.
create_dynamic_column_mapping(selected_assignments, brightspace_columns) ==
  IF selected_assignments = <<>> THEN <<>>
  ELSE LET cisco_col == Head(selected_assignments)
           brightspace_col == find_brightspace_column(brightspace_columns, SearchTerm(cisco_col))
           rest == create_dynamic_column_mapping(Tail(selected_assignments), brightspace_columns)
       IN  IF brightspace_col # None /\ brightspace_col # <<>>
           THEN <<(<<cisco_col, brightspace_col>>)>> \o rest
           ELSE rest

(* ------------------------------- inputs ------------------------------- *)

Quiz1Grade == <<"Q","u","i","z"," ","1"," ","G","r","a","d","e">>

Quiz2Grade == <<"Q","u","i","z"," ","2"," ","G","r","a","d","e">>

Quiz1 == <<"Q","u","i","z"," ","1">>

TestNo1 == <<"T","e","s","t"," ","N","o"," ","1">>

Alice == <<"A","l","i","c","e">>

Lee == <<"L","e","e">>

Text855 == <<"8","5",".","5">>

TextPass == <<"P","a","s","s">>

MailUpper == <<"A","@","X",".","c","o","m"," ">>

MailMixed == <<"A","@","x",".","c","o","m">>

MailA == <<"a","@","x",".","c","o","m">>

MailB == <<"b","@","x",".","c","o","m">>

\* Gradebook column layouts as load_brightspace_csv may hand them over, and
\* one without the Email column.
BrightspaceLayouts ==
  { <<LastName, FirstName, Email, Quiz2Grade, Quiz1Grade, static_fragment_1>>,
    <<Email, LastName, FirstName, Quiz2Grade>>,
    <<LastName, FirstName, Email>>,
    <<LastName, FirstName, Quiz1Grade>> }

\* The student lists of the gradebooks: one student, two students, and two
\* students whose emails differ only in case.
BrightspaceStudentLists ==
  { <<[email |-> Str(MailA), old |-> NaN]>>,
    <<[email |-> Str(MailA), old |-> NaN], [email |-> Str(MailB), old |-> Num(700)]>>,
    <<[email |-> Str(MailMixed), old |-> Num(700)], [email |-> Str(MailA), old |-> NaN]>> }

\* One gradebook row in the column order of the layout.
BrightspaceRow(layout, student) ==
  [c \in 1..Len(layout) |->
     CASE layout[c] = Email -> student.email
       [] layout[c] = LastName -> Str(Lee)
       [] layout[c] = FirstName -> Str(Alice)
       [] OTHER -> student.old]

BrightspaceTables ==
  { [columns |-> layout,
     rows |-> [r \in 1..Len(students) |-> BrightspaceRow(layout, students[r])]] :
    layout \in BrightspaceLayouts, students \in BrightspaceStudentLists }

\* The assignment columns of the provider table.
Assignments == {Quiz1, static_key_1, TestNo1}

CiscoColumns == <<NAME, EMAIL, Quiz1, static_key_1, TestNo1>>

\* Provider rows in the order of CiscoColumns.
CiscoRows ==
  { <<Str(Alice), Str(MailUpper), Str(Text855), NaN, Str(TextPass)>>,
    <<Str(Lee), Str(MailB), Str(<<" ">>), Str(TextPass), Str(<<>>)>>,
    <<Str(Lee), NaN, Str(Text855), Str(Text855), Str(Text855)>>,
    <<Str(Lee), Str(<<" ">>), Str(Text855), Str(Text855), Str(Text855)>> }

\* The provider tables: at most MaxCiscoRows rows, and one table that has
\* no EMAIL column.
CiscoTables ==
  { [columns |-> CiscoColumns, rows |-> rows] :
    rows \in UNION { [1..n -> CiscoRows] : n \in 1..MaxCiscoRows } }
  \cup { [columns |-> <<NAME, Quiz1>>, rows |-> << <<Str(Alice), Str(Text855)>> >>] }

\* The orders in which a set can be enumerated.
Orderings(S) ==
  { order \in [1..Cardinality(S) -> S] :
      \A i, j \in 1..Cardinality(S) : i # j => order[i] # order[j] }

(* ------------------------------- state -------------------------------- *)

VARIABLES
  brightspace_df,        \* argument: the gradebook table
  cisco_df,              \* argument: the provider table
  selected_assignments,  \* argument: the set of selected assignment names
  set_blanks_to_zero,    \* argument: the blank policy (TRUE is setZero)
  pc,                    \* "setup", "row", "col" or "done"
  updated_df,            \* the working copy of the gradebook
  cisco_df_copy,         \* the working copy of the provider table
  column_mapping,        \* the dict of line 458, in insertion order
  update_summary,        \* the counters of lines 461-468
  idx,                   \* position of the provider row being processed
  brightspace_idx,       \* the matched gradebook row of line 487
  col_pos,               \* position in column_mapping of the pair being processed
  warnings,              \* how many st.warning calls lines 520 (col) and 525 (row) made
  returned,              \* the pair update_brightspace_grades returns
  cisco_file,            \* the provider file as pd.read_csv parsed it (line 267)
  assignment_preview,    \* the records get_assignment_data_preview returned
  calls                  \* how many times update_brightspace_grades was called

vars ==
  <<brightspace_df, cisco_df, selected_assignments, set_blanks_to_zero, pc,
    updated_df, cisco_df_copy, column_mapping, update_summary, idx,
    brightspace_idx, col_pos, warnings, returned, cisco_file, assignment_preview,
    calls>>

\* What main keeps beside one merge: the parsed provider file, the preview,
\* and the number of merges run.
app == <<cisco_file, assignment_preview, calls>>

args == <<brightspace_df, cisco_df, selected_assignments, set_blanks_to_zero>>

EmptyFrame == [columns |-> <<>>, rows |-> <<>>]

\* Lines 537-544: the summary returned when the merge fails.
ZeroSummary ==
  [StudentsMatched |-> 0, GradesUpdated |-> 0, StudentsNotFound |-> 0,
   SelectedAssignments |-> 0, MappedAssignments |-> 0, BlankGradesProcessed |-> 0]

\* InitialSummary with the two assignment counts taken from each other's
\* source.
InitialSummary_counts_swapped(selected, mapping) ==
  [StudentsMatched |-> 0, GradesUpdated |-> 0, StudentsNotFound |-> 0,
   SelectedAssignments |-> Len(mapping), MappedAssignments |-> Cardinality(selected),
   BlankGradesProcessed |-> 0]

\* Lines 461-468.
InitialSummary(selected, mapping) ==
  [StudentsMatched |-> 0, GradesUpdated |-> 0, StudentsNotFound |-> 0,
   SelectedAssignments |-> Cardinality(selected), MappedAssignments |-> Len(mapping),
   BlankGradesProcessed |-> 0]

Locals0 ==
  /\ pc = "setup"
  /\ updated_df = EmptyFrame
  /\ cisco_df_copy = EmptyFrame
  /\ column_mapping = <<>>
  /\ update_summary = ZeroSummary
  /\ idx = 0
  /\ brightspace_idx = 0
  /\ col_pos = 0
  /\ warnings = [row |-> 0, col |-> 0]
  /\ returned = [table |-> EmptyFrame, summary |-> ZeroSummary]
  /\ cisco_file = EmptyFrame
  /\ assignment_preview = <<>>
  /\ calls = 1

\* The call update_brightspace_grades(brightspace_df, cisco_df,
\* selected_assignments, set_blanks_to_zero) at its entry.
Init ==
  /\ brightspace_df \in BrightspaceTables
  /\ cisco_df \in CiscoTables
  /\ selected_assignments \in SUBSET Assignments
  /\ set_blanks_to_zero \in BOOLEAN
  /\ Locals0

(* ------------------------------ actions ------------------------------- *)

\* The assignment of line 448 without .copy(): both names are one object, so
\* the table that was copied from is the table that was written.
Untouched_without_copy(original, written) == written

\* Lines 448-449: DataFrame.copy() is a deep copy, so a write to the copy
\* leaves the table it was copied from as it was.
Untouched(original, written) == original

\* The outer handler returning the counts of the selection instead of zeros.
ReturnOriginal_with_counts ==
  /\ pc' = "done"
  /\ returned' = [table |-> brightspace_df,
                  summary |-> InitialSummary(selected_assignments, <<>>)]

\* Lines 534-544: the handler of the outer try.
ReturnOriginal ==
  /\ pc' = "done"
  /\ returned' = [table |-> brightspace_df, summary |-> ZeroSummary]

\* Lines 448-468: the copies, the normalized email columns, the mapping
\* and the counters; a missing Email or EMAIL column raises KeyError, which
\* the outer handler turns into the original table and a zeroed summary.
Setup ==
  /\ pc = "setup"
  /\ IF ~HasColumn(brightspace_df, Email)
     THEN /\ ReturnOriginal
          /\ updated_df' = brightspace_df
          /\ cisco_df_copy' = cisco_df
          /\ UNCHANGED <<column_mapping, update_summary, idx>>
     ELSE IF ~HasColumn(cisco_df, EMAIL)
     THEN /\ ReturnOriginal
          /\ updated_df' = WithColumn(brightspace_df, Email_normalized,
                                      NormalizedColumn(brightspace_df, Email))
          /\ cisco_df_copy' = cisco_df
          /\ UNCHANGED <<column_mapping, update_summary, idx>>
     ELSE \E order \in Orderings(selected_assignments) :
            LET df == WithColumn(brightspace_df, Email_normalized,
                                 NormalizedColumn(brightspace_df, Email))
                mapping == create_dynamic_column_mapping(order, df.columns)
            IN  /\ updated_df' = df
                /\ cisco_df_copy' = WithColumn(cisco_df, EMAIL_normalized,
                                               NormalizedColumn(cisco_df, EMAIL))
                /\ column_mapping' = mapping
                /\ update_summary' = InitialSummary(selected_assignments, mapping)
                /\ idx' = 1
                /\ pc' = "row"
                /\ UNCHANGED returned
  /\ brightspace_df' = Untouched(brightspace_df, updated_df')
  /\ cisco_df' = Untouched(cisco_df, cisco_df_copy')
  /\ UNCHANGED <<app, selected_assignments, set_blanks_to_zero, brightspace_idx,
                 col_pos, warnings>>

\* Line 476: the provider rows that are skipped.
IsEmptyEmail(cisco_email) ==
  \/ IsNa(cisco_email)
  \/ cisco_email.s = <<"n","a","n">>
  \/ Strip(cisco_email.s) = <<>>

\* brightspace_match that falls back to the first gradebook row when no
\* email is equal.
brightspace_match_or_first(df, cisco_email) ==
  LET equal == {r \in 1..Len(df.rows) : Cell(df, r, Email_normalized) = cisco_email}
  IN  IF equal = {} THEN {r \in 1..Len(df.rows) : r = 1} ELSE equal

\* Line 480: the gradebook rows whose Email_normalized cell equals
\* cisco_email.
brightspace_match(df, cisco_email) ==
  {r \in 1..Len(df.rows) : Cell(df, r, Email_normalized) = cisco_email}

\* Lines 471-487 for the provider row at idx: skipped, not found, or
\* matched to the first gradebook row with its normalized email.
ProcessRow ==
  /\ pc = "row"
  /\ idx <= Len(cisco_df_copy.rows)
  /\ LET cisco_email == Cell(cisco_df_copy, idx, EMAIL_normalized)
         match == brightspace_match(updated_df, cisco_email)
     IN  IF IsEmptyEmail(cisco_email)
         THEN /\ idx' = idx + 1
              /\ UNCHANGED <<pc, update_summary, brightspace_idx, col_pos>>
         ELSE IF match = {}
         THEN /\ update_summary' =
                   [update_summary EXCEPT !.StudentsNotFound = @ + 1]
              /\ idx' = idx + 1
              /\ UNCHANGED <<pc, brightspace_idx, col_pos>>
         ELSE /\ update_summary' =
                   [update_summary EXCEPT !.StudentsMatched = @ + 1]
              /\ brightspace_idx' = CHOOSE r \in match : \A k \in match : r <= k
              /\ IF column_mapping = <<>>
                 THEN idx' = idx + 1 /\ UNCHANGED <<pc, col_pos>>
                 ELSE pc' = "col" /\ col_pos' = 1 /\ UNCHANGED idx
  /\ UNCHANGED <<app, args, updated_df, cisco_df_copy, column_mapping, warnings, returned>>

\* The end of one pass of the loop of line 490: the next pair, or the next
\* provider row.
NextColumn ==
  IF col_pos < Len(column_mapping)
  THEN col_pos' = col_pos + 1 /\ UNCHANGED <<pc, idx>>
  ELSE pc' = "row" /\ idx' = idx + 1 /\ UNCHANGED col_pos

\* WriteGrade with line 514 left out: a zeroed blank is not counted as one.
WriteGrade_blank_uncounted(df, summary, row, brightspace_col, cisco_grade, zero_blanks) ==
  IF ~IsBlank(cisco_grade)
  THEN [df |-> SetCell(df, row, brightspace_col, GradeValue(cisco_grade)),
        summary |-> [summary EXCEPT !.GradesUpdated = @ + 1]]
  ELSE IF zero_blanks
  THEN [df |-> SetCell(df, row, brightspace_col, Num(0)),
        summary |-> [summary EXCEPT !.GradesUpdated = @ + 1]]
  ELSE [df |-> df, summary |-> summary]

\* WriteGrade with `else` for the `elif` of line 510: blanks are zeroed
\* whatever the policy.
WriteGrade_always_zero(df, summary, row, brightspace_col, cisco_grade, zero_blanks) ==
  IF ~IsBlank(cisco_grade)
  THEN [df |-> SetCell(df, row, brightspace_col, GradeValue(cisco_grade)),
        summary |-> [summary EXCEPT !.GradesUpdated = @ + 1]]
  ELSE [df |-> SetCell(df, row, brightspace_col, Num(0)),
        summary |-> [summary EXCEPT !.GradesUpdated = @ + 1,
                                    !.BlankGradesProcessed = @ + 1]]

\* Lines 500-514: what is written to the target cell, and the counters.
WriteGrade(df, summary, row, brightspace_col, cisco_grade, zero_blanks) ==
  IF ~IsBlank(cisco_grade)
  THEN [df |-> SetCell(df, row, brightspace_col, GradeValue(cisco_grade)),
        summary |-> [summary EXCEPT !.GradesUpdated = @ + 1]]
  ELSE IF zero_blanks
  THEN [df |-> SetCell(df, row, brightspace_col, Num(0)),
        summary |-> [summary EXCEPT !.GradesUpdated = @ + 1,
                                    !.BlankGradesProcessed = @ + 1]]
  ELSE [df |-> df, summary |-> summary]

\* Lines 490-516 for the pair of column_mapping at col_pos.
UpdateColumn ==
  /\ pc = "col"
  /\ LET cisco_col == column_mapping[col_pos][1]
         brightspace_col == column_mapping[col_pos][2]
     IN  IF HasColumn(cisco_df_copy, cisco_col)
         THEN LET w == WriteGrade(updated_df, update_summary, brightspace_idx,
                                  brightspace_col, Cell(cisco_df_copy, idx, cisco_col),
                                  set_blanks_to_zero)
              IN  updated_df' = w.df /\ update_summary' = w.summary
         ELSE UNCHANGED <<updated_df, update_summary>>
  /\ NextColumn
  /\ brightspace_df' = Untouched(brightspace_df, updated_df')
  /\ UNCHANGED <<app, cisco_df, selected_assignments, set_blanks_to_zero, cisco_df_copy,
                 column_mapping, brightspace_idx, warnings, returned>>

\* Lines 528-532: the temporary column is dropped and the pair returned.
Finish ==
  /\ pc = "row"
  /\ idx > Len(cisco_df_copy.rows)
  /\ updated_df' = IF HasColumn(updated_df, Email_normalized)
                   THEN DropColumn(updated_df, Email_normalized)
                   ELSE updated_df
  /\ returned' = [table |-> updated_df', summary |-> update_summary]
  /\ pc' = "done"
  /\ UNCHANGED <<app, args, cisco_df_copy, column_mapping, update_summary, idx,
                 brightspace_idx, col_pos, warnings>>

\* Lines 523-526: an exception while the provider row at idx is matched;
\* the handler warns and the loop goes on with the next row.
RaiseInRow ==
  /\ pc = "row"
  /\ idx <= Len(cisco_df_copy.rows)
  /\ warnings' = [warnings EXCEPT !.row = @ + 1]
  /\ idx' = idx + 1
  /\ UNCHANGED <<app, args, pc, updated_df, cisco_df_copy, column_mapping, update_summary,
                 brightspace_idx, col_pos, returned>>

\* RaiseInColumn without the inner try: the exception reaches the outer
\* handler of lines 534-544.
RaiseInColumn_uncaught ==
  /\ pc = "col"
  /\ warnings' = [warnings EXCEPT !.col = @ + 1]
  /\ pc' = "done"
  /\ returned' = [table |-> brightspace_df, summary |-> ZeroSummary]
  /\ UNCHANGED <<app, args, updated_df, cisco_df_copy, column_mapping, update_summary,
                 idx, brightspace_idx, col_pos>>

\* Lines 518-521: an exception while the pair at col_pos is processed; the
\* handler warns and the loop goes on with the next pair.
RaiseInColumn ==
  /\ pc = "col"
  /\ warnings' = [warnings EXCEPT !.col = @ + 1]
  /\ NextColumn
  /\ UNCHANGED <<app, args, updated_df, cisco_df_copy, column_mapping, update_summary,
                 brightspace_idx, returned>>

Next == Setup \/ ProcessRow \/ UpdateColumn \/ Finish

\* The merge when no pandas call inside the loops raises.
Spec == Init /\ [][Next]_vars

\* The calls checked with exceptions inside the loops: two gradebooks and
\* the provider tables whose rows all carry an email.
InitRaising ==
  /\ brightspace_df \in
       { t \in BrightspaceTables :
           /\ Len(t.rows) = 2
           /\ Len(t.columns) > 3
           /\ HasColumn(t, Email)
           /\ \A r \in 1..2 : NormalizeEmail(Cell(t, r, Email)) = Lower(Strip(<<MailA, MailB>>[r])) }
  /\ cisco_df \in
       { t \in CiscoTables :
           /\ HasColumn(t, EMAIL)
           /\ \A r \in 1..Len(t.rows) : ~IsBlank(Cell(t, r, EMAIL)) }
  /\ selected_assignments \in SUBSET Assignments
  /\ set_blanks_to_zero \in BOOLEAN
  /\ Locals0

NextRaising ==
  Setup \/ ProcessRow \/ UpdateColumn \/ Finish \/ RaiseInRow \/ RaiseInColumn

\* The merge when any pass of either loop may raise.
SpecRaising == InitRaising /\ [][NextRaising]_vars

\* Lines 164-169: update_brightspace_grades is called again on the tables
\* the last call was given, with any selection and blank policy; the locals
\* of the new call are new.
Invoke ==
  /\ pc = "done"
  /\ calls < MaxCalls
  /\ calls' = calls + 1
  /\ selected_assignments' \in SUBSET Assignments
  /\ set_blanks_to_zero' \in BOOLEAN
  /\ pc' = "setup"
  /\ updated_df' = EmptyFrame
  /\ cisco_df_copy' = EmptyFrame
  /\ column_mapping' = <<>>
  /\ update_summary' = ZeroSummary
  /\ idx' = 0
  /\ brightspace_idx' = 0
  /\ col_pos' = 0
  /\ warnings' = [row |-> 0, col |-> 0]
  /\ returned' = [table |-> EmptyFrame, summary |-> ZeroSummary]
  /\ UNCHANGED <<cisco_file, assignment_preview, brightspace_df, cisco_df>>

\* The calls checked in sequences: every gradebook, and the provider tables
\* whose first row is Alice's.
InitRepeated ==
  /\ brightspace_df \in BrightspaceTables
  /\ cisco_df \in { t \in CiscoTables : t.rows[1][1] = Str(Alice) }
  /\ selected_assignments \in SUBSET Assignments
  /\ set_blanks_to_zero \in BOOLEAN
  /\ Locals0

NextRepeated == Setup \/ ProcessRow \/ UpdateColumn \/ Finish \/ Invoke

\* Up to MaxCalls merges, one after the other, on the same two tables.
SpecRepeated == InitRepeated /\ [][NextRepeated]_vars

(* ----------------------- the merge as a function ----------------------- *)

\* Lines 490-516 for the matched gradebook row: the pairs of the mapping
\* from position p on, in the order of the mapping.
RECURSIVE UpdateColumns(_, _, _, _, _, _, _)
UpdateColumns(w, cisco, k, row, mapping, p, zero_blanks) ==
  IF p > Len(mapping)
  THEN w
  ELSE LET cisco_col == mapping[p][1]
           brightspace_col == mapping[p][2]
           written == IF HasColumn(cisco, cisco_col)
                      THEN WriteGrade(w.df, w.summary, row, brightspace_col,
                                      Cell(cisco, k, cisco_col), zero_blanks)
                      ELSE w
       IN  UpdateColumns(written, cisco, k, row, mapping, p + 1, zero_blanks)

\* Lines 471-516: the provider rows from position k on.
RECURSIVE UpdateRows(_, _, _, _, _)
UpdateRows(w, cisco, k, mapping, zero_blanks) ==
  IF k > Len(cisco.rows)
  THEN w
  ELSE LET cisco_email == Cell(cisco, k, EMAIL_normalized)
           match == brightspace_match(w.df, cisco_email)
           after ==
             IF IsEmptyEmail(cisco_email)
             THEN w
             ELSE IF match = {}
             THEN [w EXCEPT !.summary.StudentsNotFound = @ + 1]
             ELSE UpdateColumns([w EXCEPT !.summary.StudentsMatched = @ + 1],
                                cisco, k, CHOOSE r \in match : \A m \in match : r <= m,
                                mapping, 1, zero_blanks)
       IN  UpdateRows(after, cisco, k + 1, mapping, zero_blanks)

\* Lines 441-544 when no pandas call inside the loops raises: the pair
\* returned for the two tables, the selection enumerated in `order`, and the
\* blank policy.
update_brightspace_grades(gradebook, provider, order, zero_blanks) ==
  IF ~HasColumn(gradebook, Email) \/ ~HasColumn(provider, EMAIL)
  THEN [table |-> gradebook, summary |-> ZeroSummary]
  ELSE LET df == WithColumn(gradebook, Email_normalized,
                            NormalizedColumn(gradebook, Email))
           cisco == WithColumn(provider, EMAIL_normalized,
                               NormalizedColumn(provider, EMAIL))
           mapping == create_dynamic_column_mapping(order, df.columns)
           summary == InitialSummary({order[i] : i \in 1..Len(order)}, mapping)
           w == UpdateRows([df |-> df, summary |-> summary], cisco, 1, mapping,
                           zero_blanks)
       IN  [table |-> IF HasColumn(w.df, Email_normalized)
                      THEN DropColumn(w.df, Email_normalized)
                      ELSE w.df,
            summary |-> w.summary]

(* ------------------------- loading and preview ------------------------ *)

PointPossible == <<"P","o","i","n","t"," ","P","o","s","s","i","b","l","e">>

Text100 == <<"1","0","0">>

\* Lines 312-316: the provider columns that are never assignments.
non_assignment_columns ==
  { NAME, EMAIL,
    <<"F","i","n","a","l"," ","E","x","a","m"," ","S","u","b","m","i","t","t","e","d">>,
    <<"S","u","r","v","e","y"," ","S","u","b","m","i","t","t","e","d">>,
    <<"C","o","m","p","l","e","t","i","o","n">>,
    <<"F","i","n","a","l"," ","E","x","a","m"," ","S","c","o","r","e">>,
    <<"A","s","s","e","s","s","m","e","n","t","("," ","A","v","e","r","a","g","e"," ",")">>,
    <<"C","l","a","s","s"," ","G","r","a","d","e"," ","%">>,
    <<"N","e","t","w","o","r","k","i","n","g"," ","E","s","s","e","n","t","i","a","l","s",":"," ","C","o","u","r","s","e"," ","F","i","n","a","l"," ","E","x","a","m">> }

\* Line 328: the words one of which an assignment column contains.
keywords ==
  << <<"c","h","e","c","k","p","o","i","n","t">>,
     <<"e","x","a","m">>,
     <<"q","u","i","z">>,
     <<"t","e","s","t">>,
     <<"a","c","t","i","v","i","t","y">> >>

\* Lines 308-336: the assignment columns of a provider table, in column
\* order.
extract_available_assignments(df) ==
  SelectSeq(df.columns,
            LAMBDA col : /\ col \notin non_assignment_columns
                         /\ \E k \in 1..Len(keywords) : Contains(keywords[k], Lower(col)))

\* Line 284: the column labels trimmed.
StrippedColumns(file) ==
  [file EXCEPT !.columns = [c \in 1..Len(file.columns) |-> Strip(file.columns[c])]]

\* Lines 287-288: the required columns the parsed file lacks.
missing_columns(file) ==
  { col \in {NAME, EMAIL} : ~HasColumn(StrippedColumns(file), col) }

\* Lines 296-298: the rows with a NAME other than 'Point Possible' and with
\* an EMAIL.
StudentRow(df, r) ==
  /\ ~IsNa(Cell(df, r, NAME))
  /\ Cell(df, r, NAME) # Str(PointPossible)
  /\ ~IsNa(Cell(df, r, EMAIL))

\* df[mask]: the rows of df from position r on whose position is in keep,
\* in order.
RECURSIVE KeepRows(_, _, _)
KeepRows(df, r, keep) ==
  IF r > Len(df.rows) THEN <<>>
  ELSE (IF r \in keep THEN <<df.rows[r]>> ELSE <<>>) \o KeepRows(df, r + 1, keep)

\* Lines 283-303 for a parsed file that has the required columns: labels
\* trimmed, the rows that are not students dropped, EMAIL normalized.
load_cisco_csv(file) ==
  LET df == StrippedColumns(file)
      kept == [df EXCEPT !.rows =
                 KeepRows(df, 1, {r \in 1..Len(df.rows) : StudentRow(df, r)})]
  IN  WithColumn(kept, EMAIL, NormalizedColumn(kept, EMAIL))

\* Line 363: f"{(k / n * 100):.1f}%", and "0%" when there is no student
\* row.  With the table sizes modelled k / n * 100 is never halfway between
\* two tenths, so rounding to the nearest tenth is the rounding of the format.
CompletionText(k, n) ==
  IF n > 0
  THEN LET tenths == (2000 * k + n) \div (2 * n)
       IN  NatText(tenths \div 10) \o <<".">> \o NatText(tenths % 10) \o <<"%">>
  ELSE <<"0","%">>

\* Lines 346-364 for one assignment column: the record of the preview.
PreviewRecord(cisco, col) ==
  LET point_possible_row ==
        {r \in 1..Len(cisco.rows) : Cell(cisco, r, NAME) = Str(PointPossible)}
      max_points_val ==
        Cell(cisco, CHOOSE r \in point_possible_row :
                      \A m \in point_possible_row : r <= m, col)
      max_points ==
        IF /\ point_possible_row # {}
           /\ ~IsNa(max_points_val)
           /\ Strip(PyStr(max_points_val)) # <<>>
        THEN <<"/">> \o PyStr(max_points_val)
        ELSE <<>>
      student_data ==
        {r \in 1..Len(cisco.rows) : Cell(cisco, r, NAME) # Str(PointPossible)}
      students_with_grades ==
        Cardinality({r \in student_data :
                       /\ ~IsNa(Cell(cisco, r, col))
                       /\ Cell(cisco, r, col) # Str(<<>>)
                       /\ Cell(cisco, r, col) # Str(<<" ">>)})
      total_students == Cardinality(student_data)
  IN  [Assignment |-> col,
       MaxPoints |-> max_points,
       StudentsWithGrades |->
         NatText(students_with_grades) \o <<"/">> \o NatText(total_students),
       Completion |-> CompletionText(students_with_grades, total_students)]

\* Lines 338-370: one record for each assignment column, and the empty
\* table when a column looked up is missing (the handler of line 368).
get_assignment_data_preview(cisco, assignment_cols) ==
  IF \/ ~HasColumn(cisco, NAME)
     \/ \E i \in 1..Len(assignment_cols) : ~HasColumn(cisco, assignment_cols[i])
  THEN <<>>
  ELSE [i \in 1..Len(assignment_cols) |-> PreviewRecord(cisco, assignment_cols[i])]

\* The 'Point Possible' rows of a provider file, in the order of
\* CiscoColumns: each assignment cell is empty, blank, or 100.
PointPossibleRows ==
  { <<Str(PointPossible), NaN, a, b, c>> :
      a \in {NaN, Str(<<" ">>), Str(Text100)},
      b \in {NaN, Str(<<" ">>), Str(Text100)},
      c \in {NaN, Str(<<" ">>), Str(Text100)} }

\* The provider files as pd.read_csv parses them: a 'Point Possible' row or
\* none, then at most MaxCiscoRows student rows; and one file that has no
\* EMAIL column.
CiscoFiles ==
  { [columns |-> CiscoColumns, rows |-> head \o students] :
      head \in {<<>>} \cup { <<p>> : p \in PointPossibleRows },
      students \in UNION { [1..n -> CiscoRows] : n \in 1..MaxCiscoRows } }
  \cup { [columns |-> <<NAME, Quiz1>>, rows |-> << <<Str(Alice), Str(Text855)>> >>] }

\* main when the provider file has been uploaded and parsed (line 46).
InitPreview ==
  /\ cisco_file \in CiscoFiles
  /\ pc = "load"
  /\ brightspace_df = EmptyFrame
  /\ cisco_df = EmptyFrame
  /\ selected_assignments = {}
  /\ set_blanks_to_zero = FALSE
  /\ updated_df = EmptyFrame
  /\ cisco_df_copy = EmptyFrame
  /\ column_mapping = <<>>
  /\ update_summary = ZeroSummary
  /\ idx = 0
  /\ brightspace_idx = 0
  /\ col_pos = 0
  /\ warnings = [row |-> 0, col |-> 0]
  /\ returned = [table |-> EmptyFrame, summary |-> ZeroSummary]
  /\ assignment_preview = <<>>
  /\ calls = 0

\* Line 51: cisco_df = load_cisco_csv(cisco_file); the ValueError of line
\* 292 ends the run of main (line 219).
LoadCisco ==
  /\ pc = "load"
  /\ IF missing_columns(cisco_file) # {}
     THEN pc' = "load_failed" /\ UNCHANGED cisco_df
     ELSE pc' = "loaded" /\ cisco_df' = load_cisco_csv(cisco_file)
  /\ UNCHANGED <<app, brightspace_df, selected_assignments, set_blanks_to_zero,
                 updated_df, cisco_df_copy, column_mapping, update_summary, idx,
                 brightspace_idx, col_pos, warnings, returned>>

\* Lines 85-93: the assignments of the loaded table and their preview.
ShowPreview ==
  /\ pc = "loaded"
  /\ extract_available_assignments(cisco_df) # <<>>
  /\ assignment_preview' =
       get_assignment_data_preview(cisco_df, extract_available_assignments(cisco_df))
  /\ pc' = "previewed"
  /\ UNCHANGED <<cisco_file, calls, args, updated_df, cisco_df_copy, column_mapping,
                 update_summary, idx, brightspace_idx, col_pos, warnings, returned>>

NextPreview == LoadCisco \/ ShowPreview

\* main from the parsed provider file to the assignment preview.
SpecPreview == InitPreview /\ [][NextPreview]_vars

(* ------------------------------ properties ----------------------------- *)

\* The merge got past its setup: both email columns exist.
SetupSucceeds == HasColumn(brightspace_df, Email) /\ HasColumn(cisco_df, EMAIL)

\* The merge has returned from line 532.
Merged == pc = "done" /\ SetupSucceeds

\* The identity columns of a gradebook.
IdentityColumns == {Email, LastName, FirstName}

\* C1: the returned table has the rows and the columns of the input
\* gradebook, and in every row the Email, Last Name and First Name cells
\* have their input values.
C1_IdentityCellsKept ==
  pc = "done" =>
    /\ returned.table.columns = brightspace_df.columns
    /\ Len(returned.table.rows) = Len(brightspace_df.rows)
    /\ \A r \in 1..Len(brightspace_df.rows) :
         \A name \in IdentityColumns :
           HasColumn(brightspace_df, name) =>
             Cell(returned.table, r, name) = Cell(brightspace_df, r, name)

\* The normalized email of provider row k, as the claims define it: the
\* lower-cased, trimmed text of the EMAIL cell of the input table.
CiscoEmailOf(k) == Lower(Strip(PyStr(Cell(cisco_df, k, EMAIL))))

\* The normalized email of gradebook row r of the input table.
BrightspaceEmailOf(r) == Lower(Strip(PyStr(Cell(brightspace_df, r, Email))))

\* Provider row k has an email: not null and not empty once normalized.
HasEmail(k) ==
  /\ ~IsNa(Cell(cisco_df, k, EMAIL))
  /\ CiscoEmailOf(k) # <<>>

\* The gradebook rows of the input table that share the normalized email
\* of provider row k.
SameEmailRows(k) ==
  {r \in 1..Len(brightspace_df.rows) : BrightspaceEmailOf(r) = CiscoEmailOf(k)}

\* The provider row at idx is about to be processed.
AtRow == pc = "row" /\ idx <= Len(cisco_df.rows)

\* The step that processes a provider row with an email counts it as
\* matched exactly when some gradebook row has the same normalized email.
C2_MatchStep ==
  (AtRow /\ HasEmail(idx)) =>
    ((update_summary'.StudentsMatched = update_summary.StudentsMatched + 1)
       <=> (SameEmailRows(idx) # {}))

\* Every Email cell of the returned table has its input value.
C2_EmailKept ==
  (pc = "done" /\ HasColumn(brightspace_df, Email)) =>
    \A r \in 1..Len(brightspace_df.rows) :
      Cell(returned.table, r, Email) = Cell(brightspace_df, r, Email)

\* C2: a provider row with an email is matched exactly when its
\* lower-cased, trimmed email equals that of a gradebook row, and the Email
\* cells of the returned table keep their original values.
C2_NormalizedJoin == [][C2_MatchStep]_vars /\ []C2_EmailKept

\* Smallest element of a non-empty set of positions.
Min(S) == CHOOSE i \in S : \A k \in S : i <= k

\* The column the resolution order of the claim gives an assignment name,
\* None when it is to be omitted.
ClaimedColumn(columns, name) ==
  LET term == IF name \in DOMAIN static_mapping THEN static_mapping[name] ELSE name
      whole == {c \in 1..Len(columns) : Contains(term, columns[c])}
      tokens == Split(Lower(term))
      shared == {c \in 1..Len(columns) :
                   \E t \in 1..Len(tokens) : Contains(tokens[t], Lower(columns[c]))}
  IN  IF whole # {} THEN columns[Min(whole)]
      ELSE IF shared # {} THEN columns[Min(shared)]
      ELSE None

\* The pairs of column_mapping whose assignment is name.
PairsOf(name) == {p \in 1..Len(column_mapping) : column_mapping[p][1] = name}

\* C3: every selected assignment is mapped to the first column containing
\* its search term (the static fragment for a static key, else the name),
\* failing that to the first column sharing a lower-cased token with it,
\* and is omitted when there is neither; nothing else is in the mapping.
C3_ResolutionOrder ==
  (pc = "row" /\ idx = 1) =>
    /\ \A p \in 1..Len(column_mapping) : column_mapping[p][1] \in selected_assignments
    /\ \A name \in selected_assignments :
         LET col == ClaimedColumn(updated_df.columns, name)
         IN  IF col = None THEN PairsOf(name) = {}
             ELSE /\ Cardinality(PairsOf(name)) = 1
                  /\ \A p \in PairsOf(name) : column_mapping[p][2] = col

\* A mapping in which Quiz 1 went to the column containing it although an
\* earlier column shares the token quiz, and the static key went to the
\* column containing its fragment.
C3_Witness ==
  /\ pc = "row"
  /\ \E p \in 1..Len(column_mapping) : column_mapping[p] = <<Quiz1, Quiz1Grade>>
  /\ \E p \in 1..Len(column_mapping) : column_mapping[p] = <<static_key_1, static_fragment_1>>
  /\ HasColumn(updated_df, Quiz2Grade)
  /\ ColumnIndex(updated_df, Quiz2Grade) < ColumnIndex(updated_df, Quiz1Grade)

\* The provider cell of the pair being processed.
CurrentGrade == Cell(cisco_df, idx, column_mapping[col_pos][1])

\* The gradebook cell the pair being processed targets, in table df.
TargetCell(df) == Cell(df, brightspace_idx, column_mapping[col_pos][2])

\* A pair of the mapping is about to be processed for a matched row.
AtColumn == pc = "col" /\ HasColumn(cisco_df, column_mapping[col_pos][1])

\* C4: under setZero a provider cell that is null, the empty string or a
\* single space sets the target cell to numeric 0 and adds 1 to both
\* Grades Updated and Blank Grades Processed.
C4_SetZero ==
  [][(AtColumn /\ set_blanks_to_zero
        /\ CurrentGrade \in {NaN, Str(<<>>), Str(<<" ">>)}) =>
       /\ TargetCell(updated_df') = Num(0)
       /\ update_summary'.GradesUpdated = update_summary.GradesUpdated + 1
       /\ update_summary'.BlankGradesProcessed = update_summary.BlankGradesProcessed + 1]_vars

\* A blank provider cell of a matched row has been turned into a zero.
C4_Witness ==
  /\ set_blanks_to_zero
  /\ pc = "col" /\ col_pos > 1
  /\ Cell(cisco_df, idx, column_mapping[col_pos - 1][1]) \in {NaN, Str(<<>>), Str(<<" ">>)}
  /\ Cell(updated_df, brightspace_idx, column_mapping[col_pos - 1][2]) = Num(0)
  /\ update_summary.BlankGradesProcessed > 0

\* A provider cell that is null, empty or whitespace only.
BlankCell(v) == IsNa(v) \/ (v.t = "str" /\ \A i \in 1..Len(v.s) : IsSpace(v.s[i]))

\* C5: under leaveUnset a blank provider cell leaves the target cell and
\* the counters Grades Updated and Blank Grades Processed as they were.
C5_LeaveUnset ==
  [][(AtColumn /\ ~set_blanks_to_zero /\ BlankCell(CurrentGrade)) =>
       /\ TargetCell(updated_df') = TargetCell(updated_df)
       /\ update_summary'.GradesUpdated = update_summary.GradesUpdated
       /\ update_summary'.BlankGradesProcessed = update_summary.BlankGradesProcessed]_vars

\* A blank provider cell has been passed over and the grade that was in
\* the gradebook is still there.
C5_Witness ==
  /\ ~set_blanks_to_zero
  /\ pc = "col" /\ col_pos > 1
  /\ BlankCell(Cell(cisco_df, idx, column_mapping[col_pos - 1][1]))
  /\ column_mapping[col_pos - 1][2] \notin {column_mapping[q][2] : q \in 1..(col_pos - 2)}
  /\ Cell(updated_df, brightspace_idx, column_mapping[col_pos - 1][2]) = Num(700)

\* The provider rows the loop has counted so far.
CountedRows == IF pc = "col" THEN 1..idx ELSE 1..(idx - 1)

\* C6: Students Matched counts the provider rows with an email that some
\* gradebook row shares, Students Not Found those with an email that none
\* shares, and rows without an email are in neither.
C6_RowClasses ==
  (pc \in {"row", "col"} \/ Merged) =>
    /\ update_summary.StudentsMatched =
         Cardinality({k \in CountedRows : HasEmail(k) /\ SameEmailRows(k) # {}})
    /\ update_summary.StudentsNotFound =
         Cardinality({k \in CountedRows : HasEmail(k) /\ SameEmailRows(k) = {}})

C8_FirstMatchOnly ==
  [][(pc = "col" /\ Cardinality(SameEmailRows(idx)) > 1) =>
       \A r \in 1..Len(brightspace_df.rows) :
         r # Min(SameEmailRows(idx)) =>
           \A c \in 1..Len(brightspace_df.columns) :
             updated_df'.rows[r][c] = updated_df.rows[r][c]]_vars

\* C9: when the setup fails the call returns the original gradebook and a
\* summary whose six counters are 0.
C9_SetupFailure ==
  (pc = "done" /\ ~SetupSucceeds) =>
    /\ returned.table = brightspace_df
    /\ returned.summary.StudentsMatched = 0
    /\ returned.summary.GradesUpdated = 0
    /\ returned.summary.StudentsNotFound = 0
    /\ returned.summary.SelectedAssignments = 0
    /\ returned.summary.MappedAssignments = 0
    /\ returned.summary.BlankGradesProcessed = 0

\* A merge of a gradebook without Email column, with assignments selected,
\* has returned.
C9_Witness ==
  /\ pc = "done"
  /\ ~HasColumn(brightspace_df, Email)
  /\ selected_assignments # {}

\* The working copy without its temporary column.
WorkingCopy ==
  IF HasColumn(updated_df, Email_normalized)
  THEN DropColumn(updated_df, Email_normalized) ELSE updated_df

\* A step in which a handler inside the loops caught an exception.
Caught == warnings' # warnings

\* After an exception the loop goes on with the next pair or row, and what
\* was written and counted before stays.
C10_Continues ==
  Caught =>
    /\ updated_df' = updated_df
    /\ update_summary' = update_summary
    /\ pc = "row" => (pc' = "row" /\ idx' = idx + 1)
    /\ pc = "col" =>
         IF col_pos < Len(column_mapping)
         THEN pc' = "col" /\ col_pos' = col_pos + 1 /\ idx' = idx
         ELSE pc' = "row" /\ idx' = idx + 1

\* The call returns its working copy and counters.
C10_ReturnsWorkingCopy ==
  (pc' = "done" /\ pc # "done" /\ SetupSucceeds) =>
    /\ returned'.table = WorkingCopy
    /\ returned'.summary = update_summary

\* When the call has returned every provider row was visited, and under
\* setZero every pair of every matched row was written or warned about.
C10_AllVisited ==
  Merged =>
    /\ idx = Len(cisco_df.rows) + 1
    /\ update_summary.StudentsMatched + update_summary.StudentsNotFound + warnings.row
         = Len(cisco_df.rows)
    /\ set_blanks_to_zero =>
         update_summary.GradesUpdated + warnings.col
           = update_summary.StudentsMatched * update_summary.MappedAssignments

\* C10: an exception in one pair or one provider row does not end the
\* merge: the rest is processed and the writes made are returned.
C10_FailureIsolated ==
  [][C10_Continues /\ C10_ReturnsWorkingCopy]_vars /\ []C10_AllVisited

\* A merge has returned grades although a pair and a row raised.
C10_Witness ==
  /\ Merged
  /\ warnings.col > 0 /\ warnings.row > 0
  /\ update_summary.GradesUpdated > 0
  /\ returned.table # brightspace_df

\* The pairs a single merge of the two tables can return for the selection
\* and the blank policy: one for each order of enumerating the selection.
SingleMerge ==
  { update_brightspace_grades(brightspace_df, cisco_df, order, set_blanks_to_zero) :
      order \in Orderings(selected_assignments) }

\* No step of a merge, and no new call, changes the two tables given.
C11_ArgumentsKept == brightspace_df' = brightspace_df /\ cisco_df' = cisco_df

\* A call that has returned, whatever calls were made before it, returned
\* what a single merge of the tables it was given returns.
C11_AsSingleMerge == (pc = "done") => returned \in SingleMerge

\* C11: update_brightspace_grades never modifies the gradebook table or the
\* provider table it is given, so after any sequence of merges on the same
\* two tables, with any selections and blank policies, the next merge
\* returns the table and summary of a single merge of those tables.
C11_InputsUnmodified == [][C11_ArgumentsKept]_vars /\ []C11_AsSingleMerge

\* A merge that followed another one on the same tables has written grades
\* to its working copy and returned.
C11_Witness ==
  /\ Merged
  /\ calls > 1
  /\ update_summary.GradesUpdated > 0
  /\ returned.table # brightspace_df

\* C12: the table and the summary a merge returns do not depend on the
\* order in which the selected-assignment set is enumerated: every order
\* gives the pair this merge returned, also when two selected assignments
\* resolve to the same gradebook column.
C12_OrderIndependent ==
  (pc = "done") =>
    \A order \in Orderings(selected_assignments) :
      update_brightspace_grades(brightspace_df, cisco_df, order, set_blanks_to_zero)
        = returned

\* The value of the first 'Point Possible' row of the provider file in the
\* assignment column col.
FilePoints(col) ==
  LET rows == {r \in 1..Len(cisco_file.rows) :
                 Cell(cisco_file, r, NAME) = Str(PointPossible)}
  IN  Cell(cisco_file, CHOOSE r \in rows : \A m \in rows : r <= m, col)

\* The assignment columns of the provider file for which its
\* 'Point Possible' row has a value that is not blank.
ColumnsWithPoints ==
  { col \in {cisco_file.columns[c] : c \in 1..Len(cisco_file.columns)} :
      /\ col \in Assignments
      /\ \E r \in 1..Len(cisco_file.rows) :
           Cell(cisco_file, r, NAME) = Str(PointPossible)
      /\ ~IsNa(FilePoints(col))
      /\ Strip(PyStr(FilePoints(col))) # <<>> }

\* C13: after load_cisco_csv on the provider file and then
\* get_assignment_data_preview on the table it returned, the preview
\* reports, for every assignment column in which the file's Point Possible
\* row has a non-blank value, that value as the assignment's Max Points.
C13_MaxPointsShown ==
  (pc = "previewed") =>
    \A col \in ColumnsWithPoints :
      \E i \in 1..Len(assignment_preview) :
        /\ assignment_preview[i].Assignment = col
        /\ assignment_preview[i].MaxPoints = <<"/">> \o PyStr(FilePoints(col))

\* The relations between the counters of one summary under the blank
\* policy of the call.
CountersHold(summary) ==
  /\ summary.BlankGradesProcessed <= summary.GradesUpdated
  /\ summary.GradesUpdated <= summary.StudentsMatched * summary.MappedAssignments
  /\ summary.MappedAssignments <= summary.SelectedAssignments
  /\ ~set_blanks_to_zero => summary.BlankGradesProcessed = 0

\* C14: in every state during and after a merge, Blank Grades Processed <=
\* Grades Updated <= Students Matched x Mapped Assignments, Mapped
\* Assignments <= Selected Assignments, and Blank Grades Processed is 0
\* under leaveUnset; for the counters being kept and for those returned.
C14_SummaryCounters ==
  /\ CountersHold(update_summary)
  /\ CountersHold(returned.summary)

\* A merge has returned with a selected assignment left unmapped, a blank
\* zeroed and another grade written.
C14_Witness ==
  /\ Merged
  /\ returned.summary = update_summary
  /\ update_summary.MappedAssignments < update_summary.SelectedAssignments
  /\ update_summary.BlankGradesProcessed > 0
  /\ update_summary.GradesUpdated > update_summary.BlankGradesProcessed

====
